---- MODULE Spec2Model ----
(***************************************************************************)
(* Model of prosaic/parsing.py: the streaming segmenter                    *)
(* process_text_stream, the worker unit process_line, the process pool     *)
(* that runs the units, and the Source / Phrase rows they write.           *)
(*                                                                         *)
(* A Python str is a sequence of one-character strings.                    *)
(***************************************************************************)
EXTENDS Integers, Sequences, FiniteSets, TLC

(* ------------------------------------------------------------------ *)
(* Program constants                                                    *)
(* ------------------------------------------------------------------ *)

CHUNK_SIZE == 10000

LONG_ENOUGH == 20

\* LDQUO, RDQUO, LAQUO, RAQUO stand for the characters U+201C, U+201D,
\* U+00AB, U+00BB; the key "'" occurs twice in the dict literal
BAD_CHARS ==
    {"(", ")", "{", "}", "[", "]", "`", "'", "\"", "\n",
     "LDQUO", "RDQUO", "LAQUO", "RAQUO", "\\", "_"}

CLAUSE_MARKERS == {",", ";", ":"}

SENTENCE_MARKERS == {"?", ".", "!"}

(* ------------------------------------------------------------------ *)
(* Bounds of the model                                                  *)
(* ------------------------------------------------------------------ *)

\* number of segments an input text is built from
MaxSegs == 3

\* number of worker processes of the pool
PoolSize == 2

\* sizes passed to text.read besides CHUNK_SIZE, which no text here exceeds
SmallChunk == 10

MidChunk == 22

(* ------------------------------------------------------------------ *)
(* Inputs                                                               *)
(* ------------------------------------------------------------------ *)

\* n ordinary characters
W(n) == [i \in 1..n |-> "a"]

Segments ==
    { W(21) \o <<",">>,
      W(21) \o <<".">>,
      W(20) \o <<",">>,
      W(20) \o <<".">>,
      <<"a", "(", "(", "(", ")", ")", ")", "b">> }

RECURSIVE TextsUpTo(_)
TextsUpTo(n) ==
    IF n = 0 THEN {<<>>}
    ELSE LET prev == TextsUpTo(n - 1)
         IN  prev \cup {t \o s : t \in prev, s \in Segments}

Texts == TextsUpTo(MaxSegs)

ChunkSizes == {SmallChunk, MidChunk, CHUNK_SIZE}

(* ------------------------------------------------------------------ *)
(* State                                                                *)
(* ------------------------------------------------------------------ *)

VARIABLES
    text,           \* the whole content of the TextIOBase argument
    chunkSize,      \* the size passed to text.read
    pos,            \* the stream position of text
    chunk,          \* the chunk being scanned
    idx,            \* number of characters of chunk already handled
    line_buff,
    line_no,
    ultimate_text,
    futures,        \* the submitted units, in submission order
    yielded,        \* indexes of the futures as_completed has yielded
    error,          \* the exception process_text_stream raises
    pc,             \* position of process_text_stream
    source_row,     \* the committed Source row
    phrases,        \* the committed Phrase rows, in commit order
    handled,        \* history: the characters handled and the branch taken
    found           \* history: the 'found clause' / 'found sentence' prints

vars == <<text, chunkSize, pos, chunk, idx, line_buff, line_no,
          ultimate_text, futures, yielded, error, pc, source_row, phrases,
          handled, found>>

segVars == <<line_buff, line_no, ultimate_text, handled, found>>

readVars == <<pos, chunk, idx>>

None == "None"

Resolved == {"persisted", "NotFound", "ExtractionFailure", "StorageError"}

Failed == {"NotFound", "ExtractionFailure", "StorageError"}

Running == {"resolved", "analysed"}

Init ==
    /\ text \in Texts
    /\ chunkSize \in ChunkSizes
    /\ pos = 0
    /\ chunk = <<>>
    /\ idx = 0
    /\ line_buff = <<>>
    /\ line_no = 0
    /\ ultimate_text = <<>>
    /\ futures = <<>>
    /\ yielded = {}
    /\ error = None
    /\ pc = "init"
    /\ source_row = [exists |-> FALSE, content |-> <<>>]
    /\ phrases = <<>>
    /\ handled = <<>>
    /\ found = <<>>

(* ------------------------------------------------------------------ *)
(* process_text_stream                                                  *)
(* ------------------------------------------------------------------ *)

\* mutant: the Source is not committed before the units are submitted
InitialCommit_Deferred ==
    /\ pc = "init"
    /\ pc' = "read"
    /\ UNCHANGED <<text, chunkSize, readVars, segVars, futures, yielded,
                   error, source_row, phrases>>

\* source.content = ''; session.add(source); session.commit()
InitialCommit ==
    /\ pc = "init"
    /\ source_row' = [exists |-> TRUE, content |-> <<>>]
    /\ pc' = "read"
    /\ UNCHANGED <<text, chunkSize, readVars, segVars, futures, yielded,
                   error, phrases>>

Min(a, b) == IF a < b THEN a ELSE b

\* text.read(n) at stream position p
Read(p, n) == SubSeq(text, p + 1, Min(p + n, Len(text)))

\* mutant: what is left in line_buff at the end of the input is submitted
ReadChunk_Flush ==
    /\ pc = "read"
    /\ LET c == Read(pos, chunkSize)
       IN  /\ chunk' = c
           /\ pos' = pos + Len(c)
           /\ idx' = 0
           /\ IF Len(c) > 0
              THEN /\ line_buff' = <<>>
                   /\ pc' = "scan"
                   /\ UNCHANGED <<line_no, ultimate_text, futures, found>>
              ELSE /\ line_buff' = <<>>
                   /\ pc' = "wait"
                   /\ IF Len(line_buff) > LONG_ENOUGH
                      THEN /\ futures' = Append(futures,
                                  [line_no |-> line_no, line |-> line_buff,
                                   state |-> "queued"])
                           /\ line_no' = line_no + 1
                           /\ ultimate_text' = ultimate_text \o line_buff
                           /\ found' = Append(found, "sentence")
                      ELSE UNCHANGED <<line_no, ultimate_text, futures, found>>
    /\ UNCHANGED <<text, chunkSize, handled, yielded, error, source_row,
                   phrases>>

\* mutant: the last character of every chunk is read but not scanned
ReadChunk_DropLast ==
    /\ pc = "read"
    /\ LET c == Read(pos, chunkSize)
       IN  /\ chunk' = SubSeq(c, 1, Len(c) - 1)
           /\ pos' = pos + Len(c)
           /\ idx' = 0
           /\ IF Len(c) > 1
              THEN /\ line_buff' = <<>>
                   /\ pc' = "scan"
              ELSE /\ line_buff' = line_buff
                   /\ pc' = IF Len(c) = 0 THEN "wait" ELSE "read"
    /\ UNCHANGED <<text, chunkSize, line_no, ultimate_text, handled, found,
                   futures, yielded, error, source_row, phrases>>

\* mutant: reading stops as soon as a submitted unit has failed
ReadChunk_StopOnFailure ==
    /\ pc = "read"
    /\ LET c == IF \E i \in 1..Len(futures) : futures[i].state \in Failed
                THEN <<>>
                ELSE Read(pos, chunkSize)
       IN  /\ chunk' = c
           /\ pos' = pos + Len(c)
           /\ idx' = 0
           /\ IF Len(c) > 0
              THEN /\ line_buff' = <<>>
                   /\ pc' = "scan"
              ELSE /\ line_buff' = line_buff
                   /\ pc' = "wait"
    /\ UNCHANGED <<text, chunkSize, line_no, ultimate_text, handled, found,
                   futures, yielded, error, source_row, phrases>>

\* mutant: the length test is off by one
IsLongEnough_Lax(buf) == Len(buf) > LONG_ENOUGH + 1

\* chunk = text.read(CHUNK_SIZE); while len(chunk) > 0: line_buff = ""
ReadChunk ==
    /\ pc = "read"
    /\ LET c == Read(pos, chunkSize)
       IN  /\ chunk' = c
           /\ pos' = pos + Len(c)
           /\ idx' = 0
           /\ IF Len(c) > 0
              THEN /\ line_buff' = <<>>
                   /\ pc' = "scan"
              ELSE /\ line_buff' = line_buff
                   /\ pc' = "wait"
    /\ UNCHANGED <<text, chunkSize, line_no, ultimate_text, handled, found,
                   futures, yielded, error, source_row, phrases>>

\* mutant: the length test admits a buffer of exactly LONG_ENOUGH
IsLongEnough_Geq(buf) == Len(buf) >= LONG_ENOUGH

IsLongEnough(buf) == Len(buf) > LONG_ENOUGH

\* mutant: every filtered character adds a space
EndsWithSpace_Never(buf) == FALSE

EndsWithSpace(buf) == Len(buf) > 0 /\ buf[Len(buf)] = " "

\* the branch of the loop body that handles character c
Branch(c) ==
    IF c \in BAD_CHARS THEN "bad"
    ELSE IF c \in CLAUSE_MARKERS THEN "clause"
    ELSE IF c \in SENTENCE_MARKERS THEN "sentence"
    ELSE "ordinary"

\* ultimate_text after a clause / a sentence has been found
AccAfterClause(acc, buf) == acc \o buf

\* mutant: a sentence is submitted but not added to ultimate_text
AccAfterSentence_Skip(acc, buf) == acc

AccAfterSentence(acc, buf) == acc \o buf

\* mutant: line_no is not incremented
NextLineNo_Stuck(n) == n

NextLineNo(n) == n + 1

\* mutant: a clause marker met with a short buffer is dropped
KeepMarker_Drop(buf, c) == buf

\* line_buff += c, for a clause marker met with a short buffer
KeepMarker(buf, c) == Append(buf, c)

\* mutant: a short buffer is kept when a sentence marker is met
DiscardShort_Keep(buf) == buf

\* line_buff = "", for a sentence marker met with a short buffer
DiscardShort(buf) == <<>>

\* pool.submit(process_line, source.id, line_no, line_buff)
Submit(fs, n, buf) == Append(fs, [line_no |-> n, line |-> buf, state |-> "queued"])

\* The body of `for c in chunk` applied to the segmenter state
\* st = [line_buff, line_no, ultimate_text, futures, found].
Step(st, c) ==
    LET b == Branch(c) IN
    IF b = "bad" THEN
        IF ~EndsWithSpace(st.line_buff)
        THEN [st EXCEPT !.line_buff = Append(@, " ")]
        ELSE st
    ELSE IF b = "clause" THEN
        IF IsLongEnough(st.line_buff)
        THEN [line_buff     |-> <<>>,
              line_no       |-> NextLineNo(st.line_no),
              ultimate_text |-> AccAfterClause(st.ultimate_text, st.line_buff),
              futures       |-> Submit(st.futures, st.line_no, st.line_buff),
              found         |-> Append(st.found, "clause")]
        ELSE [st EXCEPT !.line_buff = KeepMarker(@, c)]
    ELSE IF b = "sentence" THEN
        IF IsLongEnough(st.line_buff)
        THEN [line_buff     |-> <<>>,
              line_no       |-> NextLineNo(st.line_no),
              ultimate_text |-> AccAfterSentence(st.ultimate_text, st.line_buff),
              futures       |-> Submit(st.futures, st.line_no, st.line_buff),
              found         |-> Append(st.found, "sentence")]
        ELSE [st EXCEPT !.line_buff = DiscardShort(@)]
    ELSE [st EXCEPT !.line_buff = Append(@, c)]

SegState ==
    [line_buff |-> line_buff, line_no |-> line_no,
     ultimate_text |-> ultimate_text, futures |-> futures, found |-> found]

\* one iteration of `for c in chunk`
ScanChar ==
    /\ pc = "scan"
    /\ idx < Len(chunk)
    /\ LET c  == chunk[idx + 1]
           st == Step(SegState, c)
       IN  /\ line_buff' = st.line_buff
           /\ line_no' = st.line_no
           /\ ultimate_text' = st.ultimate_text
           /\ futures' = st.futures
           /\ found' = st.found
           /\ handled' = Append(handled, [c |-> c, branch |-> Branch(c)])
    /\ idx' = idx + 1
    /\ pc' = IF idx + 1 = Len(chunk) THEN "read" ELSE "scan"
    /\ UNCHANGED <<text, chunkSize, pos, chunk, yielded, error, source_row,
                   phrases>>

AllResolved == \A i \in 1..Len(futures) : futures[i].state \in Resolved

\* mutant: the loop records the exception and goes on with the next future
BarrierYield_KeepGoing ==
    /\ pc = "wait"
    /\ \E i \in (1..Len(futures)) \ yielded :
          /\ futures[i].state \in Resolved
          /\ yielded' = yielded \cup {i}
          /\ error' = IF futures[i].state \in Failed
                      THEN futures[i].state ELSE error
          /\ pc' = IF yielded' = 1..Len(futures) /\ error' # None
                   THEN "exit_raise" ELSE "wait"
    /\ UNCHANGED <<text, chunkSize, readVars, segVars, futures, source_row,
                   phrases>>

\* for fut in as_completed(futures): a completed future is yielded;
\* if it holds an exception, that exception is raised
BarrierYield ==
    /\ pc = "wait"
    /\ \E i \in (1..Len(futures)) \ yielded :
          /\ futures[i].state \in Resolved
          /\ yielded' = yielded \cup {i}
          /\ IF futures[i].state \in Failed
             THEN /\ error' = futures[i].state
                  /\ pc' = "exit_raise"
             ELSE /\ error' = error
                  /\ pc' = "wait"
    /\ UNCHANGED <<text, chunkSize, readVars, segVars, futures, source_row,
                   phrases>>

\* mutant: the Source is finalized without waiting for the futures
BarrierDone_NoWait ==
    /\ pc = "wait"
    /\ pc' = "finalize"
    /\ UNCHANGED <<text, chunkSize, readVars, segVars, futures, yielded,
                   error, source_row, phrases>>

\* mutant: as_completed is given a timeout and the TimeoutError is swallowed
BarrierDone_Timeout ==
    /\ pc = "wait"
    /\ pc' = "exit_ok"
    /\ UNCHANGED <<text, chunkSize, readVars, segVars, futures, yielded,
                   error, source_row, phrases>>

\* as_completed is exhausted: every future was yielded without exception
BarrierDone ==
    /\ pc = "wait"
    /\ yielded = 1..Len(futures)
    /\ pc' = "exit_ok"
    /\ UNCHANGED <<text, chunkSize, readVars, segVars, futures, yielded,
                   error, source_row, phrases>>

\* mutant: on the way out the units still queued are cancelled
PoolExit_CancelPending ==
    /\ pc \in {"exit_ok", "exit_raise"}
    /\ \A i \in 1..Len(futures) : futures[i].state \notin Running
    /\ futures' = [i \in 1..Len(futures) |->
                      IF futures[i].state = "queued"
                      THEN [futures[i] EXCEPT !.state = "cancelled"]
                      ELSE futures[i]]
    /\ pc' = IF pc = "exit_ok" THEN "finalize" ELSE "raised"
    /\ UNCHANGED <<text, chunkSize, readVars, segVars, yielded, error,
                   source_row, phrases>>

\* mutant: shutdown(wait=False), the call returns while units are pending
PoolExit_NoWait ==
    /\ pc \in {"exit_ok", "exit_raise"}
    /\ pc' = IF pc = "exit_ok" THEN "finalize" ELSE "raised"
    /\ UNCHANGED <<text, chunkSize, readVars, segVars, futures, yielded,
                   error, source_row, phrases>>

\* mutant: the final Source write sits in a finally clause
PoolExit_Finally ==
    /\ pc \in {"exit_ok", "exit_raise"}
    /\ AllResolved
    /\ pc' = "finalize"
    /\ UNCHANGED <<text, chunkSize, readVars, segVars, futures, yielded,
                   error, source_row, phrases>>

\* leaving `with ProcessPoolExecutor() as pool`: shutdown(wait=True)
PoolExit ==
    /\ pc \in {"exit_ok", "exit_raise"}
    /\ AllResolved
    /\ pc' = IF pc = "exit_ok" THEN "finalize" ELSE "raised"
    /\ UNCHANGED <<text, chunkSize, readVars, segVars, futures, yielded,
                   error, source_row, phrases>>

\* source.content = ultimate_text; session.add(source); session.commit()
Finalize ==
    /\ pc = "finalize"
    /\ source_row' = [exists |-> TRUE, content |-> ultimate_text]
    /\ pc' = "done"
    /\ UNCHANGED <<text, chunkSize, readVars, segVars, futures, yielded,
                   error, phrases>>

(* ------------------------------------------------------------------ *)
(* The pool's worker processes running process_line                     *)
(* ------------------------------------------------------------------ *)

PoolOpen == pc \in {"read", "scan", "wait", "exit_ok", "exit_raise"}

NumRunning == Cardinality({i \in 1..Len(futures) : futures[i].state \in Running})

SetState(i, s) ==
    /\ futures' = [futures EXCEPT ![i].state = s]
    /\ UNCHANGED <<text, chunkSize, readVars, segVars, yielded, error, pc,
                   source_row>>

\* a free worker takes the oldest queued unit;
\* session.query(Source).filter(Source.id == source_id).one()
WorkerStart ==
    /\ PoolOpen
    /\ NumRunning < PoolSize
    /\ \E i \in 1..Len(futures) :
          /\ futures[i].state = "queued"
          /\ \A j \in 1..(i - 1) : futures[j].state # "queued"
          /\ SetState(i, IF source_row.exists THEN "resolved" ELSE "NotFound")
    /\ UNCHANGED phrases

\* the four nlp calls return
WorkerAnalyzeOk ==
    /\ \E i \in 1..Len(futures) :
          /\ futures[i].state = "resolved"
          /\ SetState(i, "analysed")
    /\ UNCHANGED phrases

\* one of the nlp calls raises
WorkerAnalyzeFail ==
    /\ \E i \in 1..Len(futures) :
          /\ futures[i].state = "resolved"
          /\ SetState(i, "ExtractionFailure")
    /\ UNCHANGED phrases

PhraseRow(f) == [line_no |-> f.line_no, raw |-> f.line, source |-> "source"]

\* mutant: the Phrase is added and committed twice
WorkerCommitOk_Twice ==
    \E i \in 1..Len(futures) :
       /\ futures[i].state = "analysed"
       /\ SetState(i, "persisted")
       /\ phrases' = phrases \o <<PhraseRow(futures[i]), PhraseRow(futures[i])>>

\* session.add(phrase); session.commit()
WorkerCommitOk ==
    \E i \in 1..Len(futures) :
       /\ futures[i].state = "analysed"
       /\ SetState(i, "persisted")
       /\ phrases' = Append(phrases, PhraseRow(futures[i]))

\* mutant: the row is written although the commit raises
WorkerCommitFail_PartialWrite ==
    \E i \in 1..Len(futures) :
       /\ futures[i].state = "analysed"
       /\ SetState(i, "StorageError")
       /\ phrases' = Append(phrases, PhraseRow(futures[i]))

\* session.commit() raises: the transaction is not applied
WorkerCommitFail ==
    /\ \E i \in 1..Len(futures) :
          /\ futures[i].state = "analysed"
          /\ SetState(i, "StorageError")
    /\ UNCHANGED phrases

Next ==
    \/ InitialCommit
    \/ ReadChunk
    \/ ScanChar
    \/ BarrierYield
    \/ BarrierDone
    \/ PoolExit
    \/ Finalize
    \/ WorkerStart
    \/ WorkerAnalyzeOk
    \/ WorkerAnalyzeFail
    \/ WorkerCommitOk
    \/ WorkerCommitFail

Spec == Init /\ [][Next]_vars

(* ------------------------------------------------------------------ *)
(* Specifications over short texts, and with fairness                   *)
(* ------------------------------------------------------------------ *)

\* number of segments of the texts of the specifications over short texts
MaxShortSegs == 2

InitShort ==
    /\ Init
    /\ text \in TextsUpTo(MaxShortSegs)

\* the steps of the thread that called process_text_stream
ProducerNext ==
    \/ InitialCommit
    \/ ReadChunk
    \/ ScanChar
    \/ BarrierYield
    \/ BarrierDone
    \/ PoolExit
    \/ Finalize

\* the steps of the pool's worker processes
WorkerNext ==
    \/ WorkerStart
    \/ WorkerAnalyzeOk
    \/ WorkerAnalyzeFail
    \/ WorkerCommitOk
    \/ WorkerCommitFail

\* process_text_stream and the pool on the short texts
SpecShort == InitShort /\ [][Next]_vars

\* the calling thread always runs; a worker may never return from a unit
SpecCaller == InitShort /\ [][Next]_vars /\ WF_vars(ProducerNext)

\* the calling thread runs and every worker process runs its unit to the end
SpecFair == SpecCaller /\ WF_vars(WorkerNext)

(* ------------------------------------------------------------------ *)
(* Properties                                                           *)
(* ------------------------------------------------------------------ *)

Streamed == pc \notin {"init", "read", "scan"}

Returned == pc \in {"done", "raised"}

\* the (line_no, line) pairs of the submitted units
Emitted(fs) == [i \in 1..Len(fs) |-> <<fs[i].line_no, fs[i].line>>]

\* `for c in chunk` over a whole string s, from segmenter state st
\* (by halves, the first half evaluated before the second is entered, to
\* keep the evaluation shallow)
RECURSIVE FeedRange(_, _, _, _)
FeedRange(st, s, lo, hi) ==
    IF lo > hi THEN st
    ELSE IF lo = hi THEN Step(st, s[lo])
    ELSE LET mid  == (lo + hi) \div 2
             half == FeedRange(st, s, lo, mid)
         IN  IF half.line_no >= 0 THEN FeedRange(half, s, mid + 1, hi) ELSE half

Feed(st, s) == FeedRange(st, s, 1, Len(s))

SegState0 ==
    [line_buff |-> <<>>, line_no |-> 0, ultimate_text |-> <<>>,
     futures |-> <<>>, found |-> <<>>]

\* the lines of the first k submitted units whose print is in kinds, joined
RECURSIVE JoinFound(_, _)
JoinFound(k, kinds) ==
    IF k = 0 THEN <<>>
    ELSE JoinFound(k - 1, kinds)
            \o (IF found[k] \in kinds THEN futures[k].line ELSE <<>>)

HasRow(f) == \E k \in 1..Len(phrases) : phrases[k] = PhraseRow(f)

RowsOf(f) == Cardinality({k \in 1..Len(phrases) : phrases[k].line_no = f.line_no})

\* C1: chunking is transparent: once the input is exhausted, the submitted
\* (line_no, line) pairs and ultimate_text are those of the same text read
\* as one single chunk.
C1_ChunkingTransparent ==
    Streamed =>
        LET whole == Feed(SegState0, text)
        IN  /\ Emitted(futures) = Emitted(whole.futures)
            /\ ultimate_text = whole.ultimate_text

\* C2: every submitted line, whichever marker triggered it, is strictly
\* longer than LONG_ENOUGH.
C2_SubmittedLongEnough ==
    \A i \in 1..Len(futures) : Len(futures[i].line) > LONG_ENOUGH

C2_Witness ==
    /\ \E i \in 1..Len(futures) :
          found[i] = "clause" /\ Len(futures[i].line) = LONG_ENOUGH + 1
    /\ \E i \in 1..Len(futures) :
          found[i] = "sentence" /\ Len(futures[i].line) = LONG_ENOUGH + 1
    /\ SubSeq(text, 1, LONG_ENOUGH + 1) = W(LONG_ENOUGH) \o <<".">>
    /\ chunkSize = CHUNK_SIZE
    /\ Streamed

\* C3: the line_no of the submitted units are 0, 1, 2, ... in submission
\* order, and line_no is the number of units submitted so far.
C3_LineNoIncreasing ==
    /\ \A i \in 1..Len(futures) : futures[i].line_no = i - 1
    /\ line_no = Len(futures)

C3_Witness ==
    /\ Len(futures) = 3
    /\ "clause" \in {found[i] : i \in 1..Len(found)}
    /\ "sentence" \in {found[i] : i \in 1..Len(found)}
    /\ chunkSize = MidChunk

\* C4: when a unit has failed, the call ends by raising the error of a failed
\* unit, and when it returns every unit that did not fail has its Phrase row
\* committed; a committed row stays.
C4_PartialPersistence ==
    /\ (Returned /\ \E i \in 1..Len(futures) : futures[i].state \in Failed)
          => /\ pc = "raised"
             /\ \E i \in 1..Len(futures) : futures[i].state = error
    /\ Returned =>
          \A i \in 1..Len(futures) :
              futures[i].state \notin Failed => HasRow(futures[i])
    /\ \A i \in 1..Len(futures) :
          futures[i].state = "persisted" => HasRow(futures[i])

C4_Witness ==
    /\ pc = "raised"
    /\ error = "StorageError"
    /\ Len(futures) = 3
    /\ futures[2].state = "StorageError"
    /\ HasRow(futures[1]) /\ HasRow(futures[3])
    /\ Len(phrases) = 2

\* C5: the final Source write happens only when no failure was observed:
\* after a normal return the Source content is ultimate_text and no unit has
\* failed; once an error is being raised the content stays the empty string
\* of the initial commit.
C5_FinalizerOnlyOnSuccess ==
    /\ pc = "done" =>
          /\ source_row = [exists |-> TRUE, content |-> ultimate_text]
          /\ error = None
          /\ \A i \in 1..Len(futures) : futures[i].state = "persisted"
    /\ error # None =>
          /\ pc \in {"exit_raise", "raised"}
          /\ source_row = [exists |-> TRUE, content |-> <<>>]

C5_Witness ==
    /\ pc = "raised"
    /\ ultimate_text # <<>>
    /\ source_row.content = <<>>

\* C6 (as stated): ultimate_text is the concatenation of the lines submitted
\* on a clause marker only.
C6_OnlyClauseAccumulated == ultimate_text = JoinFound(Len(futures), {"clause"})

\* C6 (amended): ultimate_text is the concatenation, in submission order, of
\* every submitted line, found on a clause marker or on a sentence marker.
C6_AllSubmittedAccumulated ==
    ultimate_text = JoinFound(Len(futures), {"clause", "sentence"})

C6_Witness ==
    /\ Len(futures) = 3
    /\ found[1] = "sentence" /\ found[2] = "clause" /\ found[3] = "sentence"
    /\ pc = "done"
    /\ Len(source_row.content) = 3 * (LONG_ENOUGH + 1)

\* C7: a unit is submitted, and ultimate_text grows, only in the scan of a
\* clause or sentence marker met with more than LONG_ENOUGH characters in
\* line_buff; nothing is submitted when the input is exhausted.
C7_NoFlushAtEnd ==
    [][(Len(futures') # Len(futures) \/ ultimate_text' # ultimate_text) =>
          /\ pc = "scan"
          /\ idx < Len(chunk)
          /\ chunk[idx + 1] \in CLAUSE_MARKERS \cup SENTENCE_MARKERS
          /\ Len(line_buff) > LONG_ENOUGH
          /\ Len(futures') = Len(futures) + 1
          /\ futures'[Len(futures')].line = line_buff
          /\ ultimate_text' = ultimate_text \o line_buff]_vars

C7_Witness ==
    /\ pc = "done"
    /\ Len(line_buff) > LONG_ENOUGH
    /\ \A i \in 1..Len(futures) : futures[i].line # line_buff
    /\ Len(source_row.content) + Len(line_buff) < Len(text)

\* the one category of character c: filtered, clause marker, sentence
\* marker, or ordinary when it is in none of the three dicts
Category(c) ==
    CHOOSE b \in {"bad", "clause", "sentence", "ordinary"} :
        /\ (b = "bad") = (c \in BAD_CHARS)
        /\ (b = "clause") = (c \in CLAUSE_MARKERS)
        /\ (b = "sentence") = (c \in SENTENCE_MARKERS)

\* for each text, its characters in order, each with its category
Classified ==
    [t \in Texts |-> [i \in 1..Len(t) |-> [c |-> t[i], branch |-> Category(t[i])]]]

\* C8: the characters handled so far are exactly the characters of the text
\* consumed so far, each once and in order; each went to the branch of its
\* own category, which depends on the character only; at the end of the
\* stream every character was handled.
C8_EachCharOnce ==
    /\ Len(handled) = pos - (Len(chunk) - idx)
    /\ Len(handled) <= Len(text)
    /\ handled = SubSeq(Classified[text], 1, Len(handled))
    /\ Streamed => Len(handled) = Len(text)

\* a chunk boundary right before a marker and another right after a marker
C8_Witness ==
    /\ Streamed
    /\ chunkSize < Len(text)
    /\ \E n \in 1..Len(text) :
          /\ text[n] \in CLAUSE_MARKERS \cup SENTENCE_MARKERS
          /\ (n - 1) % chunkSize = 0
    /\ \E n \in 1..(Len(text) - 1) :
          /\ text[n] \in CLAUSE_MARKERS \cup SENTENCE_MARKERS
          /\ n % chunkSize = 0

\* C9: a unit that committed has exactly one Phrase row, its own; a unit
\* that failed, or has not committed yet, has none; Storage holds no other
\* row.
C9_UnitAllOrNothing ==
    /\ \A i \in 1..Len(futures) :
          IF futures[i].state = "persisted"
          THEN RowsOf(futures[i]) = 1 /\ HasRow(futures[i])
          ELSE RowsOf(futures[i]) = 0
    /\ Len(phrases) =
          Cardinality({i \in 1..Len(futures) : futures[i].state = "persisted"})

C9_Witness ==
    /\ Len(futures) = 3
    /\ \E i \in 1..3 : futures[i].state = "persisted"
    /\ \E i \in 1..3 : futures[i].state = "ExtractionFailure"
    /\ \E i \in 1..3 : futures[i].state = "StorageError"
    /\ Len(phrases) = 1

\* C10: the Source row is written only while no unit is queued or running:
\* nothing is submitted before the initial commit, and at the final write
\* every submitted unit has resolved.
C10_NoWorkerRacesFinalizer ==
    /\ (pc = "init" \/ ~source_row.exists) => futures = <<>>
    /\ pc \in {"finalize", "done"} => AllResolved

C10_Witness ==
    /\ pc = "finalize"
    /\ Len(futures) = 3
    /\ AllResolved

\* C11: the call returns, normally or with an error, in every run in which
\* all the submitted units end up resolved; and as long as a unit is
\* unresolved and no failure has been observed it stays in the wait for the
\* futures, as there is no timeout.
C11_ReturnsIffUnitsResolve ==
    /\ (<>[](Streamed /\ AllResolved)) => <>Returned
    /\ []((Streamed /\ error = None /\ ~AllResolved) => pc = "wait")

\* the barrier blocked on a unit that has not resolved, all others yielded
C11_Witness ==
    /\ pc = "wait"
    /\ error = None
    /\ Len(futures) = 2
    /\ \E i \in 1..2 : futures[i].state \notin Resolved /\ yielded = {1, 2} \ {i}

\* a step that handles the next character of the chunk, which is in set S
Scans(S) == pc = "scan" /\ idx < Len(chunk) /\ chunk[idx + 1] \in S /\ idx' = idx + 1

\* C12: the step on a clause marker: with more than LONG_ENOUGH characters
\* in line_buff, line_buff is submitted with the current line_no, line_no
\* grows by one and line_buff becomes empty; otherwise nothing is submitted,
\* line_no and ultimate_text are unchanged and the marker is appended to
\* line_buff.
C12_ClauseStep ==
    [][Scans(CLAUSE_MARKERS) =>
          IF Len(line_buff) > LONG_ENOUGH
          THEN /\ futures' = Append(futures, [line_no |-> line_no,
                                               line |-> line_buff,
                                               state |-> "queued"])
               /\ line_no' = line_no + 1
               /\ line_buff' = <<>>
          ELSE /\ futures' = futures
               /\ line_no' = line_no
               /\ ultimate_text' = ultimate_text
               /\ line_buff' = line_buff \o <<chunk[idx + 1]>>]_vars

\* a clause was submitted, then a clause marker met a buffer of exactly
\* LONG_ENOUGH characters
C12_Witness ==
    /\ Len(futures) = 1
    /\ found = <<"clause">>
    /\ line_buff = W(LONG_ENOUGH) \o <<",">>
    /\ handled[Len(handled)].branch = "clause"

\* C13: the step on a sentence marker: line_buff is empty afterwards in
\* every case; line_buff as it was is submitted, once, exactly when it was
\* longer than LONG_ENOUGH; otherwise nothing is submitted and line_no is
\* unchanged.
C13_SentenceStep ==
    [][Scans(SENTENCE_MARKERS) =>
          /\ line_buff' = <<>>
          /\ IF Len(line_buff) > LONG_ENOUGH
             THEN /\ futures' = Append(futures, [line_no |-> line_no,
                                                  line |-> line_buff,
                                                  state |-> "queued"])
                  /\ line_no' = line_no + 1
             ELSE /\ futures' = futures
                  /\ line_no' = line_no
                  /\ ultimate_text' = ultimate_text]_vars

\* a sentence was submitted, then a sentence marker met a buffer of exactly
\* LONG_ENOUGH characters, which was discarded
C13_Witness ==
    /\ Len(futures) = 1
    /\ found = <<"sentence">>
    /\ line_buff = <<>>
    /\ Len(handled) = 2 * LONG_ENOUGH + 3
    /\ handled[Len(handled)].branch = "sentence"
    /\ handled[Len(handled) - 1].branch = "ordinary"
    /\ chunkSize = CHUNK_SIZE

\* C14: the step on a filtered character appends one space to line_buff if
\* line_buff does not end with a space and otherwise leaves it as it is; it
\* changes neither line_no nor ultimate_text nor the submitted units. So
\* line_buff never holds two spaces in a row (the texts hold no space), and
\* "a((()))b" leaves "a b" in line_buff.
C14_FilteredStep ==
    /\ [][Scans(BAD_CHARS) =>
            /\ line_buff' =
                  IF Len(line_buff) > 0 /\ line_buff[Len(line_buff)] = " "
                  THEN line_buff
                  ELSE line_buff \o <<" ">>
            /\ line_no' = line_no
            /\ ultimate_text' = ultimate_text
            /\ futures' = futures]_vars
    /\ [](\A k \in 1..(Len(line_buff) - 1) :
             ~(line_buff[k] = " " /\ line_buff[k + 1] = " "))
    /\ []((text = <<"a", "(", "(", "(", ")", ")", ")", "b">>
              /\ chunkSize = CHUNK_SIZE /\ Streamed)
           => line_buff = <<"a", " ", "b">>)

C14_Witness ==
    /\ line_buff = <<"a", " ", "b">>
    /\ Len(handled) = 8
    /\ handled[7].branch = "bad"
    /\ futures = <<>>

YieldedFailures == {i \in yielded : futures[i].state \in Failed}

\* C15: the wait yields futures in whatever order they completed; the error
\* raised is the exception of the one failed future that was yielded, the
\* wait stops there, so no second failure is ever yielded; while no failed
\* future was yielded no error is raised, and a call whose units all
\* succeeded ends without error.
C15_FirstObservedFailure ==
    /\ yielded \subseteq {i \in 1..Len(futures) : futures[i].state \in Resolved}
    /\ IF error = None
       THEN YieldedFailures = {}
       ELSE /\ Cardinality(YieldedFailures) = 1
            /\ \A i \in YieldedFailures : error = futures[i].state
    /\ pc = "raised" => error # None
    /\ (Returned /\ \A i \in 1..Len(futures) : futures[i].state = "persisted")
          => pc = "done" /\ error = None

\* two units failed; the error raised is the one of the later-submitted
\* unit, the failure of the earlier one is not reported
C15_Witness ==
    /\ pc = "raised"
    /\ Len(futures) = 2
    /\ futures[1].state = "ExtractionFailure"
    /\ futures[2].state = "StorageError"
    /\ error = "StorageError"
    /\ yielded = {2}

\* C16: once a failure has been observed, every submitted unit still ends up
\* persisted or failed; a queued unit leaves the queue only by being taken
\* by a worker, and a resolved unit keeps its outcome.
C16_NoCancellation ==
    /\ (error # None) ~> AllResolved
    /\ [][\A i \in 1..Len(futures) :
            /\ futures[i].state = "queued"
                  => futures'[i].state \in {"queued", "resolved", "NotFound"}
            /\ futures[i].state \in Running
                  => futures'[i].state \in Running \cup Resolved
            /\ futures[i].state \in Resolved
                  => futures'[i].state = futures[i].state]_vars

\* a failure was observed while another unit was still queued
C16_Witness ==
    /\ pc = "exit_raise"
    /\ error # None
    /\ yielded = {1}
    /\ Len(futures) = 2
    /\ futures[2].state = "queued"

\* C17: the Source row is committed before any unit is submitted, so a
\* worker always finds it: no unit fails with NotFound.
C17_SourceFoundByWorkers ==
    /\ futures # <<>> => source_row.exists
    /\ \A i \in 1..Len(futures) : futures[i].state # "NotFound"

\* the workers have looked the Source up for all three units and found it
C17_Witness ==
    /\ Len(futures) = 3
    /\ futures[1].state = "persisted"
    /\ futures[2].state \in Running
    /\ futures[3].state \in Running
    /\ pc = "wait"

\* C18: after a normal return the Phrase rows are one per submitted unit:
\* for each line_no 0..n-1 exactly one row, with the line submitted under
\* that line_no and the Source, whatever the order the workers committed in.
C18_RowsMatchUnits ==
    pc = "done" =>
        /\ Len(phrases) = Len(futures)
        /\ \A n \in 0..(Len(futures) - 1) :
              /\ Cardinality({k \in 1..Len(phrases) : phrases[k].line_no = n}) = 1
              /\ \E k \in 1..Len(phrases) :
                    phrases[k] = [line_no |-> n, raw |-> futures[n + 1].line,
                                  source |-> "source"]

\* three units committed in an order that is not the submission order
C18_Witness ==
    /\ pc = "done"
    /\ Len(phrases) = 3
    /\ phrases[1].line_no = 1
    /\ phrases[2].line_no = 2
    /\ phrases[3].line_no = 0

\* the whole loop `while len(chunk) > 0` over a string s read n characters
\* at a time, from segmenter state st, with no worker running (each chunk
\* evaluated before the next is entered)
RECURSIVE FeedChunked(_, _, _)
FeedChunked(st, s, n) ==
    IF s = <<>> THEN st
    ELSE LET c    == SubSeq(s, 1, Min(n, Len(s)))
             done == Feed([st EXCEPT !.line_buff = <<>>], c)
         IN  IF done.line_no >= 0
             THEN FeedChunked(done, SubSeq(s, Len(c) + 1, Len(s)), n)
             ELSE done

\* for each text and chunk size, the (line_no, line) pairs submitted by the
\* reading loop when no worker runs
EmittedAlone ==
    [t \in Texts |->
        [n \in ChunkSizes |-> Emitted(FeedChunked(SegState0, t, n).futures)]]

\* C19: whatever the units do while the input is being read, an error is
\* raised only after the whole input was scanned, and the units submitted by
\* then have the line_no and lines of a run in which no worker ran at all.
C19_SegmentationIgnoresFailures ==
    /\ error # None => Streamed
    /\ Streamed =>
          /\ Len(handled) = Len(text)
          /\ Emitted(futures) = EmittedAlone[text][chunkSize]

\* the first unit failed while the input was still being scanned, and the
\* third unit was submitted all the same
C19_Witness ==
    /\ pc \in {"scan", "read"}
    /\ pos < Len(text)
    /\ Len(futures) = 2
    /\ futures[1].state \in Failed
    /\ \E t \in Texts : Len(Feed(SegState0, t).futures) = 3 /\ t = text
    /\ chunkSize = MidChunk

\* C20: a submitted line holds no sentence marker and no filtered
\* character, and holds clause markers only among its first
\* LONG_ENOUGH + 1 characters.
C20_SubmittedLineContents ==
    \A i \in 1..Len(futures) :
        LET line == futures[i].line
        IN  /\ {line[k] : k \in 1..Len(line)}
                  \cap (SENTENCE_MARKERS \cup BAD_CHARS) = {}
            /\ {line[k] : k \in (LONG_ENOUGH + 2)..Len(line)}
                  \cap CLAUSE_MARKERS = {}

\* a line submitted on a sentence marker with a clause marker as its 21st
\* character, after a buffer with a sentence marker's text was discarded
C20_Witness ==
    /\ Len(futures) = 1
    /\ found = <<"sentence">>
    /\ Len(futures[1].line) > LONG_ENOUGH + 1
    /\ futures[1].line[LONG_ENOUGH + 1] \in CLAUSE_MARKERS
    /\ handled[LONG_ENOUGH + 1].branch = "sentence"

====
